---- MODULE Spec2Model ----
(***************************************************************************)
(* A model of fiopush / ostreehub: the client push pipeline               *)
(* (pkg/fiopush/push.go) and the hub's check / unpack / filter / upload / *)
(* aggregate pipeline (pkg/oshub/upload.go, pkg/oshub/tar.go).            *)
(*                                                                         *)
(* Spec      the client: walker, push workers, closer, wait(), with the   *)
(*           hub answering each request in one step against the bucket;   *)
(*           the client process may be run again on the same bucket.      *)
(* SpecHub   one PUT on the hub: Untar -> Filter -> Sync workers -> Wait, *)
(*           every goroutine and channel modelled.                        *)
(* SpecCheck one check request on the hub: the Check worker pool.         *)
(* SpecUntar the unpacker of one PUT: Untar's goroutine and its channel.   *)
(* SpecPools the three worker pools of Spec, SpecCheck and SpecHub side by *)
(*           side.                                                         *)
(* SpecFair, SpecHubFair  one run of the client, one PUT on the hub, under *)
(*           weak fairness of their goroutines.                            *)
(* SpecPusher one Pusher and its caller: Run and Wait called in any order, *)
(*           with the pipeline a first Run starts.                         *)
(***************************************************************************)
EXTENDS Integers, Sequences, FiniteSets, TLC

\* ------------------------------------------------------------------ bounds
\* Files of the repository: ./config, ./objects/1..NumObjects, ./refs/1..NumRefs.
NumObjects == 1
NumRefs == 0
\* push.go:60 sets 20 workers; the report queues have the same capacity
\* (push.go:220-222), a relation the model keeps.
concurrentPusherNumb == 2
\* upload.go:35 sets 500; push.go:62 takes it over, and the comparison of
\* push.go:235 is kept as written.
FilesToCheckMaxNumb == 1
filesToCheckMaxNumb == FilesToCheckMaxNumb
\* How often the client process is run against the same bucket.
MaxRuns == 2
\* uploader.workerNumb (upload.go:66), set by the hub's configuration.
workerNumb == 2
\* CRC-32C values are 0..MaxCrc; 0 is also "do not verify" (upload.go:207).
MaxCrc == 2
\* The bucket's keys are 1..NumKeys: the objects the hub is asked about.
NumKeys == 2
\* Entries of the archive one PUT carries (SpecHub, SpecUntar), files of one
\* check request (SpecCheck).
MaxEntries == 2
\* Calls of Run and Wait one caller makes on a Pusher (SpecPusher).
MaxCalls == 3

\* ------------------------------------------------------- program constants
\* tar.go:15, upload.go:118 (make(chan *RepoFile, 100)); upload.go:136.
walkQueueSize == 10000
untarQueueSize == 100
objectQueueSize == 100
statusQueuePerWorker == 100
filterReportQueueSize == 1

Crcs == 0..MaxCrc
NoObject == -1

\* ------------------------------------------------------------------- paths
\* A repo-relative path "./<dir>/<name>"; ./config is [dir "config", name 0].
ObjectPaths == {[dir |-> "objects", name |-> i] : i \in 1..NumObjects}
RefPaths == {[dir |-> "refs", name |-> i] : i \in 1..NumRefs}
ConfigPath == [dir |-> "config", name |-> 0]
RepoPaths == {ConfigPath} \cup ObjectPaths \cup RefPaths

\* strings.HasPrefix(path, "./objects/")
HasObjectsPrefix(path) == path.dir = "objects"

\* objectPrefix + file.Path[len("./objects/")-1:] : the bucket key of an
\* object path is the prefix followed by "/<name>".
ObjectName(path) == path.name

BucketKeys == 1..NumKeys

\* filepath.Walk visits in lexical order: ./config, ./objects/.., ./refs/..
WalkOrder ==
    <<ConfigPath>>
    \o [i \in 1..NumObjects |-> [dir |-> "objects", name |-> i]]
    \o [i \in 1..NumRefs |-> [dir |-> "refs", name |-> i]]

\* The content of the repository's files, as the CRC-32C of their bytes.
\* No file of the repository has the checksum 0.
FileCrc(path) == IF path.dir = "objects" THEN 1 + (path.name % MaxCrc)
                 ELSE 1

FileSize(path) == IF path.dir = "objects" THEN 2 ELSE 1

\* --------------------------------------------------------------- map[string]uint32
\* A map from path to checksum, as the set of its entries.
\* A variant that breaks out of the loop before it stores the entry read at
\* the limit.
MapPutDroppingAtLimit(m, path, crc) ==
    IF Cardinality(m) >= filesToCheckMaxNumb
    THEN m
    ELSE {e \in m : e.Path # path} \cup {[Path |-> path, CRC32 |-> crc]}

MapPut(m, path, crc) ==
    {e \in m : e.Path # path} \cup {[Path |-> path, CRC32 |-> crc]}

\* ------------------------------------------------------------ the bucket
\* obj.Attrs: err is "nil", "ErrObjectNotExist" or "other".
Attrs(bucket, key, queryFails) ==
    IF queryFails THEN [err |-> "other", CRC32C |-> 0]
    ELSE IF bucket[key] = NoObject THEN [err |-> "ErrObjectNotExist", CRC32C |-> 0]
    ELSE [err |-> "nil", CRC32C |-> bucket[key]]

\* ------------------------------------------------------------------- Check
\* One iteration of a Check worker: TRUE iff the file is sent on objToSyncCh.
CheckFileInverted(file, bucket, queryFails) ==
    IF ~HasObjectsPrefix(file.Path) THEN TRUE
    ELSE LET attr == Attrs(bucket, ObjectName(file.Path), queryFails)
         IN  IF attr.err # "nil" THEN TRUE
             ELSE file.CRC32 = attr.CRC32C

CheckFile(file, bucket, queryFails) ==
    IF ~HasObjectsPrefix(file.Path) THEN TRUE
    ELSE LET attr == Attrs(bucket, ObjectName(file.Path), queryFails)
         IN  IF attr.err # "nil" THEN TRUE
             ELSE file.CRC32 # attr.CRC32C

\* ------------------------------------------------------------------ upload
\* upload(): the status it returns, the bucket it leaves and whether it
\* started a write. fault is what the environment does to this call:
\* "none", "query" (Attrs fails, not with not-found), "open" (os.Open
\* fails), "write" (io.Copy or w.Close fails). bodyCrc is the CRC-32C of the
\* staged file's bytes.
UploadStatus(path, exist, err) == [Object |-> path, Exist |-> exist, Err |-> err]

\* upload() after its attribute query returned attr (upload.go:183-225).
UploadAfterQueryAlwaysWrites(attr, objectName, object, bodyCrc, bucket, fault) ==
    LET st(exist, err, wrote) ==
            [status |-> UploadStatus(object.Path, exist, err),
             bucket |-> bucket, wrote |-> wrote, attr |-> attr]
    IN  IF attr.err # "nil" /\ attr.err # "ErrObjectNotExist"
        THEN st(FALSE, "query", FALSE)
        ELSE IF fault = "open"
        THEN st(FALSE, "open", FALSE)
        ELSE IF fault = "write"
        THEN st(FALSE, "write", TRUE)
        ELSE IF object.CRC32 # 0 /\ bodyCrc # object.CRC32
        THEN st(FALSE, "checksum", TRUE)
        ELSE [st(FALSE, "", TRUE) EXCEPT
                 !.bucket = [bucket EXCEPT ![objectName] = bodyCrc]]

UploadAfterQueryNoCommit(attr, objectName, object, bodyCrc, bucket, fault) ==
    LET st(exist, err, wrote) ==
            [status |-> UploadStatus(object.Path, exist, err),
             bucket |-> bucket, wrote |-> wrote, attr |-> attr]
    IN  IF attr.err = "nil" /\ attr.CRC32C = object.CRC32
        THEN st(TRUE, "", FALSE)
        ELSE IF attr.err # "nil" /\ attr.err # "ErrObjectNotExist"
        THEN st(FALSE, "query", FALSE)
        ELSE IF fault = "open"
        THEN st(FALSE, "open", FALSE)
        ELSE IF fault = "write"
        THEN st(FALSE, "write", TRUE)
        ELSE IF object.CRC32 # 0 /\ bodyCrc # object.CRC32
        THEN st(FALSE, "checksum", TRUE)
        ELSE st(FALSE, "", TRUE)

UploadAfterQueryProceeding(attr, objectName, object, bodyCrc, bucket, fault) ==
    LET st(exist, err, wrote) ==
            [status |-> UploadStatus(object.Path, exist, err),
             bucket |-> bucket, wrote |-> wrote, attr |-> attr]
    IN  IF attr.err = "nil" /\ attr.CRC32C = object.CRC32
        THEN st(TRUE, "", FALSE)
        ELSE IF fault = "open"
        THEN st(FALSE, "open", FALSE)
        ELSE IF fault = "write"
        THEN st(FALSE, "write", TRUE)
        ELSE IF object.CRC32 # 0 /\ bodyCrc # object.CRC32
        THEN st(FALSE, "checksum", TRUE)
        ELSE [st(FALSE, "", TRUE) EXCEPT
                 !.bucket = [bucket EXCEPT ![objectName] = bodyCrc]]

UploadAfterQueryUnverified(attr, objectName, object, bodyCrc, bucket, fault) ==
    LET st(exist, err, wrote) ==
            [status |-> UploadStatus(object.Path, exist, err),
             bucket |-> bucket, wrote |-> wrote, attr |-> attr]
    IN  IF attr.err = "nil" /\ attr.CRC32C = object.CRC32
        THEN st(TRUE, "", FALSE)
        ELSE IF attr.err # "nil" /\ attr.err # "ErrObjectNotExist"
        THEN st(FALSE, "query", FALSE)
        ELSE IF fault = "open"
        THEN st(FALSE, "open", FALSE)
        ELSE IF fault = "write"
        THEN st(FALSE, "write", TRUE)
        ELSE [st(FALSE, "", TRUE) EXCEPT
                 !.bucket = [bucket EXCEPT ![objectName] = bodyCrc]]

UploadAfterQuery(attr, objectName, object, bodyCrc, bucket, fault) ==
    LET st(exist, err, wrote) ==
            [status |-> UploadStatus(object.Path, exist, err),
             bucket |-> bucket, wrote |-> wrote, attr |-> attr]
    IN  IF attr.err = "nil" /\ attr.CRC32C = object.CRC32
        THEN st(TRUE, "", FALSE)
        ELSE IF attr.err # "nil" /\ attr.err # "ErrObjectNotExist"
        THEN st(FALSE, "query", FALSE)
        ELSE IF fault = "open"
        THEN st(FALSE, "open", FALSE)
        ELSE IF fault = "write"
        THEN st(FALSE, "write", TRUE)
        ELSE IF object.CRC32 # 0 /\ bodyCrc # object.CRC32
        THEN st(FALSE, "checksum", TRUE)
        ELSE [st(FALSE, "", TRUE) EXCEPT
                 !.bucket = [bucket EXCEPT ![objectName] = bodyCrc]]

\* upload() as one step: the attribute query, then the rest.
upload(objectName, object, bodyCrc, bucket, fault) ==
    UploadAfterQuery(Attrs(bucket, objectName, fault = "query"),
                     objectName, object, bodyCrc, bucket, fault)

Faults == {"none", "query", "open", "write"}

\* -------------------------------------------------------------------- Wait
ZeroSyncReport ==
    [UploadedFileNumb |-> 0, SyncedFileNumb |-> 0,
     UploadSyncedFileNumb |-> 0, SyncFailedNumb |-> 0]

\* The statusQueue case of Wait's select, for a received status.
WaitOnStatusCountingOnlyWrites(status, us) ==
    [status EXCEPT
        !.SyncedFileNumb = @ + (IF us.Exist THEN 0 ELSE 1),
        !.SyncFailedNumb = @ + (IF us.Err # "" THEN 1 ELSE 0),
        !.UploadSyncedFileNumb = @ + (IF ~us.Exist THEN 1 ELSE 0)]

WaitOnStatus(status, us) ==
    [status EXCEPT
        !.SyncedFileNumb = @ + 1,
        !.SyncFailedNumb = @ + (IF us.Err # "" THEN 1 ELSE 0),
        !.UploadSyncedFileNumb = @ + (IF ~us.Exist THEN 1 ELSE 0)]

\* --------------------------------------------------------------------- Tar
ZeroSendReport == [FileNumb |-> 0, ObjNumb |-> 0, Bytes |-> 0]

\* The counters of one archived file (tar.go:120-124).
TarCount(sr, file) ==
    [FileNumb |-> sr.FileNumb + 1,
     ObjNumb |-> sr.ObjNumb + (IF file.Path.dir = "objects" THEN 1 ELSE 0),
     Bytes |-> sr.Bytes + FileSize(file.Path)]

RECURSIVE TarReport(_, _)
TarReport(files, sr) ==
    IF files = {} THEN sr
    ELSE LET f == CHOOSE x \in files : TRUE
         IN  TarReport(files \ {f}, TarCount(sr, f))

AddSendReport(a, b) ==
    [FileNumb |-> a.FileNumb + b.FileNumb,
     ObjNumb |-> a.ObjNumb + b.ObjNumb,
     Bytes |-> a.Bytes + b.Bytes]

AddSyncReport(a, b) ==
    [UploadedFileNumb |-> a.UploadedFileNumb + b.UploadedFileNumb,
     SyncedFileNumb |-> a.SyncedFileNumb + b.SyncedFileNumb,
     UploadSyncedFileNumb |-> a.UploadSyncedFileNumb + b.UploadSyncedFileNumb,
     SyncFailedNumb |-> a.SyncFailedNumb + b.SyncFailedNumb]


\* ---------------------------------------------------------- the hub, per request
\* The files a check request is answered with: Check run over the request's
\* files, queryFails being the files whose attribute query fails.
HubCheck(batch, bucket, queryFails) ==
    {f \in batch : CheckFile(f, bucket, f \in queryFails)}

\* Filter's routing test, strings.HasPrefix(file.Path, filterPrefix), for the
\* prefix the hub passes, "./objects/".
HasFilterPrefix(path) == HasObjectsPrefix(path)

\* Sync and Wait over the objects Filter forwarded, one upload after the other
\* (the keys of distinct paths are distinct, so the order is immaterial).
RECURSIVE SyncAll(_, _, _, _)
SyncAll(objects, bucket, fault, acc) ==
    IF objects = {} THEN [acc EXCEPT !.bucket = bucket]
    ELSE LET o == CHOOSE x \in objects : TRUE
             r == upload(ObjectName(o.Path), o, FileCrc(o.Path), bucket, fault[o])
         IN  SyncAll(objects \ {o}, r.bucket, fault,
                     [acc EXCEPT !.status = WaitOnStatus(@, r.status),
                                 !.events = @ \cup {r.status}])

\* The hub's answer to one PUT: read are the entries Untar emitted (all of
\* them unless the archive is cut short), counted is whether Wait took
\* Filter's count before it returned.
HubPut(read, bucket, fault, counted) ==
    LET r == SyncAll({f \in read : HasFilterPrefix(f.Path)}, bucket, fault,
                     [bucket |-> bucket, status |-> ZeroSyncReport, events |-> {}])
    IN  [bucket |-> r.bucket, events |-> r.events,
         report |-> [r.status EXCEPT !.UploadedFileNumb =
                        IF counted THEN Cardinality(read) ELSE 0]]

\* --------------------------------------------------------------- the client
VARIABLES
    run,                \* the number of this run of the client process
    bucket,             \* the hub's bucket: key -> CRC-32C, or NoObject
    aborted,            \* the client process has died (log.Fatalf, panic)
    walkPos,            \* files the walker has emitted so far
    fileQueue,          \* walkAndCrcRepo's queue: [buf, closed]
    pc,                 \* position of each push worker
    objectsToCheck,     \* per worker
    objectsToSync,      \* per worker
    tar,                \* per worker: the Tar goroutine: "idle", "run", "done"
    http,               \* per worker: the pushRepo goroutine: "idle", "run", "done"
    sendReportChannel,  \* per worker: Tar's report channel (a sequence)
    recvReportChannel,  \* per worker: pushRepo's report channel
    respBad,            \* per worker: the PUT was answered non-2xx or not with JSON
    checkReportQueue,   \* [buf, closed]
    reportQueue,        \* [buf, closed]
    recvReportQueue,    \* [buf, closed]
    closerPc,           \* the goroutine of push.go:224: "wg", "c1", "c2", "c3"
    totalChecked, totalSendReport, totalRecvReport,
    waitPc,             \* wait(): "loop" or "returned"; "idle" before Wait is called (SpecPusher)
    hCheckSent,         \* history: sum of the values sent on the Check channel
    hSendSent,          \* history: sum of the SendReports sent on the Send channel
    hBatchSizes,        \* history: sizes of the batches submitted to the check endpoint
    hCheckReqs,         \* history: number of check requests of this run
    hMissing,           \* history: the union of the check responses of this run
    hPuts,              \* history: number of PUT requests of this run
    hBadDelivered,      \* history: statuses of bad PUT answers sent on the Sync channel
    hErrRun,            \* history: a bucket query or an upload failed, or an archive was cut short, this run
    hWriteFailRun,      \* history: a bucket write failed in this run
    prev                \* history: the run before: [done, err, writeFail]

clientVars == <<run, aborted, walkPos, fileQueue, pc, objectsToCheck,
    objectsToSync, tar, http, sendReportChannel, recvReportChannel, respBad,
    checkReportQueue, reportQueue, recvReportQueue, closerPc, totalChecked,
    totalSendReport, totalRecvReport, waitPc, hCheckSent, hSendSent,
    hBatchSizes, hCheckReqs, hMissing, hPuts, hBadDelivered, hErrRun,
    hWriteFailRun, prev>>

\* --------------------------------------------------- the hub's PUT pipeline
VARIABLES
    fed,                \* SpecHub: files the unpacker has emitted so far
    hubFileQueue,       \* Filter's input queue (Untar's output): [buf, closed]
    filterPc,           \* Filter's goroutine: "loop", "report", "closeObj", "closeRep", "done"
    fileNumb,           \* Filter's counter
    objectQueue,        \* [buf, closed]
    filterReportQueue,  \* Filter's reportQueue: [buf, closed]
    syncPc,             \* per Sync worker: "recv", "query", "write", "send", "done"
    syncObject,         \* per Sync worker: the object it holds
    syncAttr,           \* per Sync worker: what its attribute query returned
    syncStatus,         \* per Sync worker: the status upload returned
    statusQueue,        \* [buf, closed]
    hubStatus,          \* Wait's status
    hubWaitPc,          \* Wait: "loop" or "returned"
    hEvents,            \* history: the statuses sent on statusQueue
    hWrites,            \* history: [attr, object] of every bucket write started
    hCountTaken,        \* history: Wait received Filter's count
    hForwarded          \* history: number of files Filter sent on objectQueue

hubVars == <<fed, hubFileQueue, filterPc, fileNumb, objectQueue,
    filterReportQueue, syncPc, syncObject, syncAttr, syncStatus, statusQueue,
    hubStatus, hubWaitPc, hEvents, hWrites, hCountTaken, hForwarded>>

\* ------------------------------------------------------- the hub's Check pool
VARIABLES
    checkBatch,         \* SpecCheck: the files of the request
    checkToFeed,        \* the files of the request not yet queued
    checkFileQueue,     \* Check's input queue: [buf, closed]
    checkPc,            \* per Check worker: "recv", "send", "done"
    checkHeld,          \* per Check worker: the file it is sending
    objToSyncCh,        \* [buf, closed]
    checkCloserPc,      \* the goroutine of upload.go:76: "wg", "done"
    checkOut            \* the files received from objToSyncCh, in order

checkVars == <<checkBatch, checkToFeed, checkFileQueue, checkPc, checkHeld,
    objToSyncCh, checkCloserPc, checkOut>>

\* ------------------------------------------------------------------- Untar
VARIABLES
    archive,            \* SpecUntar: the entries the tar reader has returned
    untarPc,            \* "loop", "send", "close", "recover", "done"
    untarHeld,          \* the RepoFile Untar is sending
    untarQueue,         \* Untar's fileQueue: [buf, closed]
    untarCloses,        \* how often close(fileQueue) ran
    untarOut,           \* the files received from fileQueue, in order
    hEmitted,           \* history: the files Untar sent
    hFailedAt,          \* history: 0, or the number of the entry Untar failed on
    dstDir,             \* Untar's dstDir, as the "/"-separated elements of the string
    hCreated            \* history: the paths MkdirAll and os.Create were given and made

untarVars == <<archive, untarPc, untarHeld, untarQueue, untarCloses, untarOut,
    hEmitted, hFailedAt, dstDir, hCreated>>

\* ------------------------------------------------- the caller of a Pusher
VARIABLES
    calls,              \* SpecPusher: how many calls of Run and Wait were made
    hRunErr,            \* history: what the last Run returned: "none" before it, "nil", "auth", "unfinished"
    hWaitErr,           \* history: what the last Wait found: "none" before it, "nil" (it went on to wait), "noJobs"
    hReported           \* history: a Wait has returned a Report

pusherVars == <<calls, hRunErr, hWaitErr, hReported>>

vars == <<bucket, clientVars, hubVars, checkVars, untarVars, pusherVars>>

Pushers == 1..concurrentPusherNumb

EmptyChan == [buf |-> <<>>, closed |-> FALSE]

\* A send on a channel of the given capacity.
CanSend(ch, cap) == Len(ch.buf) < cap
Send(ch, v) == [ch EXCEPT !.buf = Append(@, v)]
CanRecv(ch) == ch.buf # <<>>
Recv(ch) == [ch EXCEPT !.buf = Tail(@)]
IsDrained(ch) == ch.closed /\ ch.buf = <<>>

\* wg.Wait(): every worker of the pool has called wg.Done().
WaitGroupDoneNoBarrier(pcs) == TRUE

WaitGroupDone(pcs) == \A w \in DOMAIN pcs : pcs[w] = "done"

\* The state of a freshly started client process.
\* What push() sets up: the channels empty and open, every goroutine at its
\* beginning.
PipelineStart ==
    /\ aborted = FALSE
    /\ walkPos = 0
    /\ fileQueue = EmptyChan
    /\ pc = [w \in Pushers |-> "read"]
    /\ objectsToCheck = [w \in Pushers |-> {}]
    /\ objectsToSync = [w \in Pushers |-> {}]
    /\ tar = [w \in Pushers |-> "idle"]
    /\ http = [w \in Pushers |-> "idle"]
    /\ sendReportChannel = [w \in Pushers |-> <<>>]
    /\ recvReportChannel = [w \in Pushers |-> <<>>]
    /\ respBad = [w \in Pushers |-> FALSE]
    /\ checkReportQueue = EmptyChan
    /\ reportQueue = EmptyChan
    /\ recvReportQueue = EmptyChan
    /\ closerPc = "wg"
    /\ totalChecked = 0
    /\ totalSendReport = ZeroSendReport
    /\ totalRecvReport = ZeroSyncReport
    /\ hCheckSent = 0
    /\ hSendSent = ZeroSendReport
    /\ hBatchSizes = {}
    /\ hCheckReqs = 0
    /\ hMissing = {}
    /\ hPuts = 0
    /\ hBadDelivered = 0
    /\ hErrRun = FALSE
    /\ hWriteFailRun = FALSE

\* main.go:36-41: Run has started the push and returned nil, Wait has been
\* called and is in wait().
ClientStart ==
    /\ PipelineStart
    /\ waitPc = "loop"
    /\ calls = 2
    /\ hRunErr = "nil"
    /\ hWaitErr = "nil"
    /\ hReported = FALSE


\* Values of the other specifications' variables while they do not run.
HubIdle ==
    /\ fed = 0
    /\ hubFileQueue = EmptyChan
    /\ filterPc = "done"
    /\ fileNumb = 0
    /\ objectQueue = EmptyChan
    /\ filterReportQueue = EmptyChan
    /\ syncPc = <<>>
    /\ syncObject = <<>>
    /\ syncAttr = <<>>
    /\ syncStatus = <<>>
    /\ statusQueue = EmptyChan
    /\ hubStatus = ZeroSyncReport
    /\ hubWaitPc = "idle"
    /\ hEvents = <<>>
    /\ hWrites = {}
    /\ hCountTaken = FALSE
    /\ hForwarded = 0

CheckIdle ==
    /\ checkBatch = {}
    /\ checkToFeed = {}
    /\ checkFileQueue = EmptyChan
    /\ checkPc = <<>>
    /\ checkHeld = <<>>
    /\ objToSyncCh = EmptyChan
    /\ checkCloserPc = "idle"
    /\ checkOut = <<>>

UntarIdle ==
    /\ archive = <<>>
    /\ untarPc = "idle"
    /\ untarHeld = <<>>
    /\ untarQueue = EmptyChan
    /\ untarCloses = 0
    /\ untarOut = <<>>
    /\ hEmitted = <<>>
    /\ hFailedAt = 0
    /\ dstDir = <<"">>
    /\ hCreated = {}

ClientIdle ==
    /\ run = 0
    /\ prev = [done |-> FALSE, err |-> FALSE, writeFail |-> FALSE]
    /\ ClientStart

\* The bucket before the first run: each object of the repository absent, or
\* present with a checksum that no file of the repository has.
InitBuckets ==
    {b \in [BucketKeys -> {NoObject, 0}] :
        \A k \in BucketKeys : k > NumObjects => b[k] = NoObject}

Init ==
    /\ run = 1
    /\ bucket \in InitBuckets
    /\ prev = [done |-> FALSE, err |-> FALSE, writeFail |-> FALSE]
    /\ ClientStart
    /\ HubIdle /\ CheckIdle /\ UntarIdle

Running == run >= 1 /\ ~aborted

\* The fields of a new run's state, primed.
ClientRestart ==
    /\ walkPos' = 0
    /\ fileQueue' = EmptyChan
    /\ pc' = [w \in Pushers |-> "read"]
    /\ objectsToCheck' = [w \in Pushers |-> {}]
    /\ objectsToSync' = [w \in Pushers |-> {}]
    /\ tar' = [w \in Pushers |-> "idle"]
    /\ http' = [w \in Pushers |-> "idle"]
    /\ sendReportChannel' = [w \in Pushers |-> <<>>]
    /\ recvReportChannel' = [w \in Pushers |-> <<>>]
    /\ respBad' = [w \in Pushers |-> FALSE]
    /\ checkReportQueue' = EmptyChan
    /\ reportQueue' = EmptyChan
    /\ recvReportQueue' = EmptyChan
    /\ closerPc' = "wg"
    /\ totalChecked' = 0
    /\ totalSendReport' = ZeroSendReport
    /\ totalRecvReport' = ZeroSyncReport
    /\ waitPc' = "loop"
    /\ hCheckSent' = 0
    /\ hSendSent' = ZeroSendReport
    /\ hBatchSizes' = {}
    /\ hCheckReqs' = 0
    /\ hMissing' = {}
    /\ hPuts' = 0
    /\ hBadDelivered' = 0
    /\ hErrRun' = FALSE
    /\ hWriteFailRun' = FALSE

\* The process dies (log.Fatalf, or a panic no goroutine recovers): its
\* goroutines, channels and counters are gone; the bucket stays.
Die ==
    /\ aborted' = TRUE
    /\ ClientRestart
    /\ UNCHANGED <<run, prev, bucket, hubVars, checkVars, untarVars, pusherVars>>

\* ---- walkAndCrcRepo's goroutine
WalkEmit ==
    /\ Running
    /\ walkPos < Len(WalkOrder)
    /\ CanSend(fileQueue, walkQueueSize)
    /\ LET p == WalkOrder[walkPos + 1]
       IN  fileQueue' = Send(fileQueue, [Path |-> p, CRC32 |-> FileCrc(p)])
    /\ walkPos' = walkPos + 1
    /\ UNCHANGED <<bucket, run, aborted, pc, objectsToCheck, objectsToSync,
         tar, http, sendReportChannel, recvReportChannel, respBad,
         checkReportQueue, reportQueue, recvReportQueue, closerPc,
         totalChecked, totalSendReport, totalRecvReport, waitPc, hCheckSent,
         hSendSent, hBatchSizes, hCheckReqs, hMissing, hPuts, hBadDelivered,
         hErrRun, hWriteFailRun, prev, hubVars, checkVars, untarVars, pusherVars>>

WalkClose ==
    /\ Running
    /\ walkPos = Len(WalkOrder)
    /\ ~fileQueue.closed
    /\ fileQueue' = [fileQueue EXCEPT !.closed = TRUE]
    /\ UNCHANGED <<bucket, run, aborted, walkPos, pc, objectsToCheck,
         objectsToSync, tar, http, sendReportChannel, recvReportChannel,
         respBad, checkReportQueue, reportQueue, recvReportQueue, closerPc,
         totalChecked, totalSendReport, totalRecvReport, waitPc, hCheckSent,
         hSendSent, hBatchSizes, hCheckReqs, hMissing, hPuts, hBadDelivered,
         hErrRun, hWriteFailRun, prev, hubVars, checkVars, untarVars, pusherVars>>

\* log.Fatalf on a walk, open or read error
WalkFatal ==
    /\ Running
    /\ ~fileQueue.closed
    /\ Die

\* ---- a push worker
\* len(objectsToCheck) > filesToCheckMaxNumb
BatchIsFull(m) == Cardinality(m) > filesToCheckMaxNumb

ReadFile(w) ==
    /\ Running
    /\ pc[w] = "read"
    /\ CanRecv(fileQueue)
    /\ LET object == Head(fileQueue.buf)
           m == MapPut(objectsToCheck[w], object.Path, object.CRC32)
       IN  /\ objectsToCheck' = [objectsToCheck EXCEPT ![w] = m]
           /\ pc' = [pc EXCEPT ![w] = IF BatchIsFull(m) THEN "check" ELSE "read"]
    /\ fileQueue' = Recv(fileQueue)
    /\ UNCHANGED <<bucket, run, aborted, walkPos, objectsToSync, tar, http,
         sendReportChannel, recvReportChannel, respBad, checkReportQueue,
         reportQueue, recvReportQueue, closerPc, totalChecked,
         totalSendReport, totalRecvReport, waitPc, hCheckSent, hSendSent,
         hBatchSizes, hCheckReqs, hMissing, hPuts, hBadDelivered, hErrRun,
         hWriteFailRun, prev, hubVars, checkVars, untarVars, pusherVars>>

ReadClosed(w) ==
    /\ Running
    /\ pc[w] = "read"
    /\ IsDrained(fileQueue)
    /\ pc' = [pc EXCEPT ![w] = IF objectsToCheck[w] = {} THEN "done" ELSE "check"]
    /\ UNCHANGED <<bucket, run, aborted, walkPos, fileQueue, objectsToCheck,
         objectsToSync, tar, http, sendReportChannel, recvReportChannel,
         respBad, checkReportQueue, reportQueue, recvReportQueue, closerPc,
         totalChecked, totalSendReport, totalRecvReport, waitPc, hCheckSent,
         hSendSent, hBatchSizes, hCheckReqs, hMissing, hPuts, hBadDelivered,
         hErrRun, hWriteFailRun, prev, hubVars, checkVars, untarVars, pusherVars>>

CheckRepo(w) ==
    /\ Running
    /\ pc[w] = "check"
    /\ \E queryFails \in SUBSET {f \in objectsToCheck[w] : HasObjectsPrefix(f.Path)} :
         LET resp == HubCheck(objectsToCheck[w], bucket, queryFails)
         IN  /\ objectsToSync' = [objectsToSync EXCEPT ![w] = resp]
             /\ hMissing' = hMissing \cup resp
             /\ hErrRun' = (hErrRun \/ queryFails # {})
    /\ hBatchSizes' = hBatchSizes \cup {Cardinality(objectsToCheck[w])}
    /\ hCheckReqs' = hCheckReqs + 1
    /\ pc' = [pc EXCEPT ![w] = "sendCheck"]
    /\ UNCHANGED <<bucket, run, aborted, walkPos, fileQueue, objectsToCheck,
         tar, http, sendReportChannel, recvReportChannel, respBad,
         checkReportQueue, reportQueue, recvReportQueue, closerPc,
         totalChecked, totalSendReport, totalRecvReport, waitPc, hCheckSent,
         hSendSent, hPuts, hBadDelivered, hWriteFailRun, prev,
         hubVars, checkVars, untarVars, pusherVars>>

\* log.Fatalf in checkRepo: the request fails or the answer is no JSON map
CheckRepoFatal(w) ==
    /\ Running
    /\ pc[w] = "check"
    /\ Die

\* if len(objectsToSync) > 0
NeedsPushAlways(missing) == TRUE

NeedsPush(missing) == Cardinality(missing) > 0

SendCheck(w) ==
    /\ Running
    /\ pc[w] = "sendCheck"
    /\ CanSend(checkReportQueue, concurrentPusherNumb)
    /\ checkReportQueue' = Send(checkReportQueue, Cardinality(objectsToCheck[w]))
    /\ hCheckSent' = hCheckSent + Cardinality(objectsToCheck[w])
    /\ IF NeedsPush(objectsToSync[w])
       THEN /\ pc' = [pc EXCEPT ![w] = "fwdSend"]
            /\ tar' = [tar EXCEPT ![w] = "run"]
            /\ http' = [http EXCEPT ![w] = "run"]
            /\ hPuts' = hPuts + 1
            /\ UNCHANGED objectsToCheck
       ELSE /\ pc' = [pc EXCEPT ![w] = "read"]
            /\ objectsToCheck' = [objectsToCheck EXCEPT ![w] = {}]
            /\ UNCHANGED <<tar, http, hPuts>>
    /\ UNCHANGED <<bucket, run, aborted, walkPos, fileQueue, objectsToSync,
         sendReportChannel, recvReportChannel, respBad, reportQueue,
         recvReportQueue, closerPc, totalChecked, totalSendReport,
         totalRecvReport, waitPc, hSendSent, hBatchSizes, hCheckReqs,
         hMissing, hBadDelivered, hErrRun, hWriteFailRun, prev, hubVars,
         checkVars, untarVars, pusherVars>>

\* ---- oshub.Tar's goroutine: the archive is written, the SendReport published
TarRun(w) ==
    /\ Running
    /\ tar[w] = "run"
    /\ sendReportChannel' = [sendReportChannel EXCEPT
           ![w] = <<TarReport(objectsToSync[w], ZeroSendReport)>>]
    /\ tar' = [tar EXCEPT ![w] = "done"]
    /\ UNCHANGED <<bucket, run, aborted, walkPos, fileQueue, pc,
         objectsToCheck, objectsToSync, http, recvReportChannel, respBad,
         checkReportQueue, reportQueue, recvReportQueue, closerPc,
         totalChecked, totalSendReport, totalRecvReport, waitPc, hCheckSent,
         hSendSent, hBatchSizes, hCheckReqs, hMissing, hPuts, hBadDelivered,
         hErrRun, hWriteFailRun, prev, hubVars, checkVars, untarVars, pusherVars>>

\* panic(err) in Tar's goroutine ends the process
TarPanic(w) ==
    /\ Running
    /\ tar[w] = "run"
    /\ Die

\* ---- pushRepo's goroutine: the hub's answer arrives and is decoded.
\* answer is "ok" (200 and a SyncReport), "errJson" (non-2xx, a JSON body) or
\* "errGarbage" (a body that is no JSON).
DecodeStatus(answer, report) ==
    IF answer = "errGarbage" THEN <<ZeroSyncReport>> ELSE <<report>>

PushRepoDo(w) ==
    /\ Running
    /\ http[w] = "run"
    /\ tar[w] = "done"
    /\ \E read \in SUBSET objectsToSync[w], counted \in BOOLEAN,
          answer \in {"ok", "errJson", "errGarbage"} :
         /\ (read # objectsToSync[w]) => answer # "ok"
         /\ (read = objectsToSync[w]) => answer # "errJson"
         /\ \E fault \in [{f \in read : HasFilterPrefix(f.Path)} -> Faults] :
              LET r == HubPut(read, bucket, fault, counted)
              IN  /\ bucket' = r.bucket
                  /\ recvReportChannel' = [recvReportChannel EXCEPT
                         ![w] = DecodeStatus(answer, r.report)]
                  /\ hErrRun' = (hErrRun \/ read # objectsToSync[w]
                                 \/ r.report.SyncFailedNumb > 0)
                  /\ hWriteFailRun' = (hWriteFailRun
                                 \/ \E e \in r.events : e.Err \in {"write", "checksum"})
         /\ respBad' = [respBad EXCEPT ![w] = (answer # "ok")]
    /\ http' = [http EXCEPT ![w] = "done"]
    /\ UNCHANGED <<run, aborted, walkPos, fileQueue, pc, objectsToCheck,
         objectsToSync, tar, sendReportChannel, checkReportQueue,
         reportQueue, recvReportQueue, closerPc, totalChecked,
         totalSendReport, totalRecvReport, waitPc, hCheckSent, hSendSent,
         hBatchSizes, hCheckReqs, hMissing, hPuts, hBadDelivered, prev,
         hubVars, checkVars, untarVars, pusherVars>>

\* panic(err) when client.Do fails
PushRepoPanic(w) ==
    /\ Running
    /\ http[w] = "run"
    /\ Die

\* Where the worker goes once it has forwarded the SendReport: to the
\* statement that forwards the SyncReport (push.go:253).
AfterForwardSendSkipping == "read"

AfterForwardSendWaitingAgain == "fwdSend"

AfterForwardSend == "fwdSync"

\* reportQueue <- <-sendReportChannel
ForwardSend(w) ==
    /\ Running
    /\ pc[w] = "fwdSend"
    /\ sendReportChannel[w] # <<>>
    /\ CanSend(reportQueue, concurrentPusherNumb)
    /\ reportQueue' = Send(reportQueue, Head(sendReportChannel[w]))
    /\ hSendSent' = AddSendReport(hSendSent, Head(sendReportChannel[w]))
    /\ sendReportChannel' = [sendReportChannel EXCEPT ![w] = <<>>]
    /\ pc' = [pc EXCEPT ![w] = AfterForwardSend]
    /\ UNCHANGED <<bucket, run, aborted, walkPos, fileQueue, objectsToCheck,
         objectsToSync, tar, http, recvReportChannel, respBad,
         checkReportQueue, recvReportQueue, closerPc, totalChecked,
         totalSendReport, totalRecvReport, waitPc, hCheckSent, hBatchSizes,
         hCheckReqs, hMissing, hPuts, hBadDelivered, hErrRun, hWriteFailRun,
         prev, hubVars, checkVars, untarVars, pusherVars>>

\* recvReportQueue <- <-recvReportChannel, and the next iteration begins
ForwardSync(w) ==
    /\ Running
    /\ pc[w] = "fwdSync"
    /\ recvReportChannel[w] # <<>>
    /\ CanSend(recvReportQueue, concurrentPusherNumb)
    /\ recvReportQueue' = Send(recvReportQueue, Head(recvReportChannel[w]))
    /\ hBadDelivered' = hBadDelivered + (IF respBad[w] THEN 1 ELSE 0)
    /\ recvReportChannel' = [recvReportChannel EXCEPT ![w] = <<>>]
    /\ pc' = [pc EXCEPT ![w] = "read"]
    /\ objectsToCheck' = [objectsToCheck EXCEPT ![w] = {}]
    /\ objectsToSync' = [objectsToSync EXCEPT ![w] = {}]
    /\ tar' = [tar EXCEPT ![w] = "idle"]
    /\ http' = [http EXCEPT ![w] = "idle"]
    /\ UNCHANGED <<bucket, run, aborted, walkPos, fileQueue,
         sendReportChannel, respBad, checkReportQueue, reportQueue, closerPc,
         totalChecked, totalSendReport, totalRecvReport, waitPc, hCheckSent,
         hSendSent, hBatchSizes, hCheckReqs, hMissing, hPuts, hErrRun,
         hWriteFailRun, prev, hubVars, checkVars, untarVars, pusherVars>>

\* ---- the goroutine of push.go:224: wg.Wait(), then the three closes
CloseCheck ==
    /\ Running
    /\ closerPc = "wg"
    /\ WaitGroupDone(pc)
    /\ checkReportQueue' = [checkReportQueue EXCEPT !.closed = TRUE]
    /\ closerPc' = "c1"
    /\ UNCHANGED <<bucket, run, aborted, walkPos, fileQueue, pc,
         objectsToCheck, objectsToSync, tar, http, sendReportChannel,
         recvReportChannel, respBad, reportQueue, recvReportQueue,
         totalChecked, totalSendReport, totalRecvReport, waitPc, hCheckSent,
         hSendSent, hBatchSizes, hCheckReqs, hMissing, hPuts, hBadDelivered,
         hErrRun, hWriteFailRun, prev, hubVars, checkVars, untarVars, pusherVars>>

CloseSend ==
    /\ Running
    /\ closerPc = "c1"
    /\ reportQueue' = [reportQueue EXCEPT !.closed = TRUE]
    /\ closerPc' = "c2"
    /\ UNCHANGED <<bucket, run, aborted, walkPos, fileQueue, pc,
         objectsToCheck, objectsToSync, tar, http, sendReportChannel,
         recvReportChannel, respBad, checkReportQueue, recvReportQueue,
         totalChecked, totalSendReport, totalRecvReport, waitPc, hCheckSent,
         hSendSent, hBatchSizes, hCheckReqs, hMissing, hPuts, hBadDelivered,
         hErrRun, hWriteFailRun, prev, hubVars, checkVars, untarVars, pusherVars>>

CloseSync ==
    /\ Running
    /\ closerPc = "c2"
    /\ recvReportQueue' = [recvReportQueue EXCEPT !.closed = TRUE]
    /\ closerPc' = "c3"
    /\ UNCHANGED <<bucket, run, aborted, walkPos, fileQueue, pc,
         objectsToCheck, objectsToSync, tar, http, sendReportChannel,
         recvReportChannel, respBad, checkReportQueue, reportQueue,
         totalChecked, totalSendReport, totalRecvReport, waitPc, hCheckSent,
         hSendSent, hBatchSizes, hCheckReqs, hMissing, hPuts, hBadDelivered,
         hErrRun, hWriteFailRun, prev, hubVars, checkVars, untarVars, pusherVars>>

\* ---- wait(): the cases of its select. A receive from the closed Check or
\* Send channel continues the loop and changes nothing.
WaitCheck ==
    /\ Running
    /\ waitPc = "loop"
    /\ CanRecv(checkReportQueue)
    /\ totalChecked' = totalChecked + Head(checkReportQueue.buf)
    /\ checkReportQueue' = Recv(checkReportQueue)
    /\ UNCHANGED <<bucket, run, aborted, walkPos, fileQueue, pc,
         objectsToCheck, objectsToSync, tar, http, sendReportChannel,
         recvReportChannel, respBad, reportQueue, recvReportQueue, closerPc,
         totalSendReport, totalRecvReport, waitPc, hCheckSent, hSendSent,
         hBatchSizes, hCheckReqs, hMissing, hPuts, hBadDelivered, hErrRun,
         hWriteFailRun, prev, hubVars, checkVars, untarVars, pusherVars>>

WaitSend ==
    /\ Running
    /\ waitPc = "loop"
    /\ CanRecv(reportQueue)
    /\ totalSendReport' = AddSendReport(totalSendReport, Head(reportQueue.buf))
    /\ reportQueue' = Recv(reportQueue)
    /\ UNCHANGED <<bucket, run, aborted, walkPos, fileQueue, pc,
         objectsToCheck, objectsToSync, tar, http, sendReportChannel,
         recvReportChannel, respBad, checkReportQueue, recvReportQueue,
         closerPc, totalChecked, totalRecvReport, waitPc, hCheckSent,
         hSendSent, hBatchSizes, hCheckReqs, hMissing, hPuts, hBadDelivered,
         hErrRun, hWriteFailRun, prev, hubVars, checkVars, untarVars, pusherVars>>

WaitSync ==
    /\ Running
    /\ waitPc = "loop"
    /\ CanRecv(recvReportQueue)
    /\ totalRecvReport' = AddSyncReport(totalRecvReport, Head(recvReportQueue.buf))
    /\ recvReportQueue' = Recv(recvReportQueue)
    /\ UNCHANGED <<bucket, run, aborted, walkPos, fileQueue, pc,
         objectsToCheck, objectsToSync, tar, http, sendReportChannel,
         recvReportChannel, respBad, checkReportQueue, reportQueue, closerPc,
         totalChecked, totalSendReport, waitPc, hCheckSent, hSendSent,
         hBatchSizes, hCheckReqs, hMissing, hPuts, hBadDelivered, hErrRun,
         hWriteFailRun, prev, hubVars, checkVars, untarVars, pusherVars>>

WaitReturn ==
    /\ Running
    /\ waitPc = "loop"
    /\ IsDrained(recvReportQueue)
    /\ waitPc' = "returned"
    /\ UNCHANGED <<bucket, run, aborted, walkPos, fileQueue, pc,
         objectsToCheck, objectsToSync, tar, http, sendReportChannel,
         recvReportChannel, respBad, checkReportQueue, reportQueue,
         recvReportQueue, closerPc, totalChecked, totalSendReport,
         totalRecvReport, hCheckSent, hSendSent, hBatchSizes, hCheckReqs,
         hMissing, hPuts, hBadDelivered, hErrRun, hWriteFailRun, prev,
         hubVars, checkVars, untarVars, pusherVars>>

\* ---- the client is run again on the same repository, against the bucket
\* the run before left
Rerun ==
    /\ Running
    /\ waitPc = "returned"
    /\ run < MaxRuns
    /\ run' = run + 1
    /\ prev' = [done |-> TRUE, err |-> hErrRun, writeFail |-> hWriteFailRun]
    /\ aborted' = FALSE
    /\ ClientRestart
    /\ UNCHANGED <<bucket, hubVars, checkVars, untarVars, pusherVars>>

\* The steps of one run of the client.
NextRun ==
    \/ WalkEmit \/ WalkClose \/ WalkFatal
    \/ \E w \in Pushers :
         \/ ReadFile(w) \/ ReadClosed(w)
         \/ CheckRepo(w) \/ CheckRepoFatal(w)
         \/ SendCheck(w)
         \/ TarRun(w) \/ TarPanic(w)
         \/ PushRepoDo(w) \/ PushRepoPanic(w)
         \/ ForwardSend(w) \/ ForwardSync(w)
    \/ CloseCheck \/ CloseSend \/ CloseSync
    \/ WaitCheck \/ WaitSend \/ WaitSync \/ WaitReturn

Next == NextRun \/ Rerun

Spec == Init /\ [][Next]_vars

\* The scheduler runs every goroutine that can take a step: the walker, each
\* worker with the goroutines of its Tar and its PUT (whose request the hub
\* answers), the closer, and wait(), whose select takes a ready case. The
\* failures (log.Fatalf, a panic) are under no fairness: they may never happen.
Fairness ==
    /\ WF_vars(WalkEmit \/ WalkClose)
    /\ \A w \in Pushers :
          /\ WF_vars(ReadFile(w) \/ ReadClosed(w) \/ CheckRepo(w) \/ SendCheck(w)
                       \/ ForwardSend(w) \/ ForwardSync(w))
          /\ WF_vars(TarRun(w))
          /\ WF_vars(PushRepoDo(w))
    /\ WF_vars(CloseCheck \/ CloseSend \/ CloseSync)
    /\ WF_vars(WaitCheck \/ WaitSend \/ WaitSync \/ WaitReturn)

\* One run of the client, against any bucket a run may find.
InitFair ==
    /\ run = 1
    /\ bucket \in {b \in [BucketKeys -> {NoObject} \cup Crcs] :
                      \A k \in BucketKeys : k > NumObjects => b[k] = NoObject}
    /\ prev = [done |-> FALSE, err |-> FALSE, writeFail |-> FALSE]
    /\ ClientStart
    /\ HubIdle /\ CheckIdle /\ UntarIdle

SpecFair == InitFair /\ [][NextRun]_vars /\ Fairness

\* ====================================== SpecPusher: the life of one Pusher
\* A caller with a new Pusher calls Run and Wait in any order, one call after
\* the other; a call of Wait returns when wait() does.

\* p.status != nil: push() has been called.
HasStatus == run >= 1

\* NewPusher, NewPusherNoAuth: no status yet.
InitPusher ==
    /\ run = 0
    /\ bucket = [k \in BucketKeys |-> NoObject]
    /\ prev = [done |-> FALSE, err |-> FALSE, writeFail |-> FALSE]
    /\ PipelineStart
    /\ waitPc = "idle"
    /\ calls = 0
    /\ hRunErr = "none"
    /\ hWaitErr = "none"
    /\ hReported = FALSE
    /\ HubIdle /\ CheckIdle /\ UntarIdle

\* Run(): the error of auth(), or the error "cannot run Pusher if there are
\* unfinished push jobs" when p.status is set, or p.status = push(...).
PusherRun ==
    /\ ~aborted
    /\ waitPc # "loop"
    /\ calls < MaxCalls
    /\ calls' = calls + 1
    /\ \E authErr \in BOOLEAN :
         IF authErr
         THEN /\ hRunErr' = "auth"
              /\ UNCHANGED run
         ELSE IF HasStatus
         THEN /\ hRunErr' = "unfinished"
              /\ UNCHANGED run
         ELSE /\ hRunErr' = "nil"
              /\ run' = run + 1
    /\ UNCHANGED <<bucket, aborted, walkPos, fileQueue, pc, objectsToCheck,
         objectsToSync, tar, http, sendReportChannel, recvReportChannel,
         respBad, checkReportQueue, reportQueue, recvReportQueue, closerPc,
         totalChecked, totalSendReport, totalRecvReport, waitPc, hCheckSent,
         hSendSent, hBatchSizes, hCheckReqs, hMissing, hPuts, hBadDelivered,
         hErrRun, hWriteFailRun, prev, hWaitErr, hReported, hubVars,
         checkVars, untarVars>>

\* Wait(): the error "cannot wait for Pusher jobs completion if there are none
\* of running jobs" when p.status is nil, or wait(p.status), whose totals
\* start at zero.
PusherWait ==
    /\ ~aborted
    /\ waitPc # "loop"
    /\ calls < MaxCalls
    /\ calls' = calls + 1
    /\ hReported' = (hReported \/ waitPc = "returned")
    /\ IF HasStatus
       THEN /\ hWaitErr' = "nil"
            /\ waitPc' = "loop"
            /\ totalChecked' = 0
            /\ totalSendReport' = ZeroSendReport
            /\ totalRecvReport' = ZeroSyncReport
       ELSE /\ hWaitErr' = "noJobs"
            /\ UNCHANGED <<waitPc, totalChecked, totalSendReport,
                 totalRecvReport>>
    /\ UNCHANGED <<bucket, run, aborted, walkPos, fileQueue, pc,
         objectsToCheck, objectsToSync, tar, http, sendReportChannel,
         recvReportChannel, respBad, checkReportQueue, reportQueue,
         recvReportQueue, closerPc, hCheckSent, hSendSent, hBatchSizes,
         hCheckReqs, hMissing, hPuts, hBadDelivered, hErrRun, hWriteFailRun,
         prev, hRunErr, hubVars, checkVars, untarVars>>

NextPusher == PusherRun \/ PusherWait \/ NextRun

SpecPusher == InitPusher /\ [][NextPusher]_vars


\* ================================================ SpecCheck: the Check pool
CheckWorkers == 1..workerNumb

\* The files a request can name: every path of the hub's key space, and
\* ./config, with any checksum.
HubPaths == {ConfigPath} \cup {[dir |-> "objects", name |-> i] : i \in BucketKeys}
HubFiles == [Path : HubPaths, CRC32 : Crcs]

\* A JSON object has one value per key.
IsMap(files) == \A f, g \in files : f.Path = g.Path => f = g

ClientIdleForHub ==
    /\ run = 0
    /\ aborted = FALSE
    /\ prev = [done |-> FALSE, err |-> FALSE, writeFail |-> FALSE]
    /\ ClientStart

InitCheck ==
    /\ bucket \in [BucketKeys -> {NoObject} \cup Crcs]
    /\ checkBatch \in {b \in SUBSET HubFiles : IsMap(b) /\ Cardinality(b) <= MaxEntries}
    /\ checkToFeed = checkBatch
    /\ checkFileQueue = EmptyChan
    /\ checkPc = [w \in CheckWorkers |-> "recv"]
    /\ checkHeld = [w \in CheckWorkers |-> <<>>]
    /\ objToSyncCh = EmptyChan
    /\ checkCloserPc = "wg"
    /\ checkOut = <<>>
    /\ ClientIdleForHub /\ HubIdle /\ UntarIdle

\* The request's handler queues the files of the request, in any order, and
\* closes the queue.
CheckFeed ==
    /\ checkCloserPc # "idle"
    /\ \E f \in checkToFeed :
         /\ CanSend(checkFileQueue, FilesToCheckMaxNumb)
         /\ checkFileQueue' = Send(checkFileQueue, f)
         /\ checkToFeed' = checkToFeed \ {f}
    /\ UNCHANGED <<bucket, checkBatch, checkPc, checkHeld, objToSyncCh,
         checkCloserPc, checkOut, clientVars, hubVars, untarVars, pusherVars>>

CheckFeedClose ==
    /\ checkCloserPc # "idle"
    /\ checkToFeed = {}
    /\ ~checkFileQueue.closed
    /\ checkFileQueue' = [checkFileQueue EXCEPT !.closed = TRUE]
    /\ UNCHANGED <<bucket, checkBatch, checkToFeed, checkPc, checkHeld,
         objToSyncCh, checkCloserPc, checkOut, clientVars, hubVars,
         untarVars, pusherVars>>

\* A Check worker takes a file and decides; a file to sync is held until
\* objToSyncCh takes it.
CheckTake(w) ==
    /\ checkPc[w] = "recv"
    /\ CanRecv(checkFileQueue)
    /\ LET file == Head(checkFileQueue.buf)
       IN  \E queryFails \in BOOLEAN :
             IF CheckFile(file, bucket, queryFails)
             THEN /\ checkHeld' = [checkHeld EXCEPT ![w] = <<file>>]
                  /\ checkPc' = [checkPc EXCEPT ![w] = "send"]
             ELSE UNCHANGED <<checkHeld, checkPc>>
    /\ checkFileQueue' = Recv(checkFileQueue)
    /\ UNCHANGED <<bucket, checkBatch, checkToFeed, objToSyncCh,
         checkCloserPc, checkOut, clientVars, hubVars, untarVars, pusherVars>>

CheckEmit(w) ==
    /\ checkPc[w] = "send"
    /\ CanSend(objToSyncCh, FilesToCheckMaxNumb)
    /\ objToSyncCh' = Send(objToSyncCh, Head(checkHeld[w]))
    /\ checkHeld' = [checkHeld EXCEPT ![w] = <<>>]
    /\ checkPc' = [checkPc EXCEPT ![w] = "recv"]
    /\ UNCHANGED <<bucket, checkBatch, checkToFeed, checkFileQueue,
         checkCloserPc, checkOut, clientVars, hubVars, untarVars, pusherVars>>

CheckWorkerDone(w) ==
    /\ checkPc[w] = "recv"
    /\ IsDrained(checkFileQueue)
    /\ checkPc' = [checkPc EXCEPT ![w] = "done"]
    /\ UNCHANGED <<bucket, checkBatch, checkToFeed, checkFileQueue,
         checkHeld, objToSyncCh, checkCloserPc, checkOut, clientVars,
         hubVars, untarVars, pusherVars>>

\* wg.Wait(); close(objToSyncCh)
CheckClose ==
    /\ checkCloserPc = "wg"
    /\ WaitGroupDone(checkPc)
    /\ objToSyncCh' = [objToSyncCh EXCEPT !.closed = TRUE]
    /\ checkCloserPc' = "done"
    /\ UNCHANGED <<bucket, checkBatch, checkToFeed, checkFileQueue, checkPc,
         checkHeld, checkOut, clientVars, hubVars, untarVars, pusherVars>>

\* The handler reads the files to sync into its answer.
CheckCollect ==
    /\ CanRecv(objToSyncCh)
    /\ checkOut' = Append(checkOut, Head(objToSyncCh.buf))
    /\ objToSyncCh' = Recv(objToSyncCh)
    /\ UNCHANGED <<bucket, checkBatch, checkToFeed, checkFileQueue, checkPc,
         checkHeld, checkCloserPc, clientVars, hubVars, untarVars, pusherVars>>

NextCheck ==
    \/ CheckFeed \/ CheckFeedClose
    \/ \E w \in CheckWorkers : CheckTake(w) \/ CheckEmit(w) \/ CheckWorkerDone(w)
    \/ CheckClose
    \/ CheckCollect

SpecCheck == InitCheck /\ [][NextCheck]_vars

\* ==================================================== SpecUntar: Untar
\* What tarReader.Next() and the handling of the entry come to, per loop
\* iteration: the end of the archive, a read error, a directory (made, or
\* not), a regular file (staged, or not), an entry of another type.
UntarOutcomes == {"eof", "readErr", "dir", "dirErr", "reg", "regErr", "other"}

\* header.PAXRecords["FIO.ostree.CRC"]: no record, no number, or a decimal
\* number.  The 32-bit word of RepoFile.CRC32 is scaled to the checksums
\* 0..MaxCrc, the 64-bit uint of strconv.ParseUint(_, 10, 0) to its square;
\* a number may fit the word, fit only the uint, or fit neither.
NoRecord == -1
BadRecord == -2
WordRange == MaxCrc + 1
UintRange == WordRange * WordRange
PaxRecords == {NoRecord, BadRecord} \cup (0..UintRange)

\* strconv.ParseUint(record, 10, 0), 0 on an error (a missing record, no
\* number, a number out of the uint's range), then uint32(expectedCrc).
ExpectedCrc(record) ==
    IF record < 0 \/ record >= UintRange THEN 0 ELSE record % WordRange

\* ---- path strings, as the sequence of their "/"-separated elements:
\* "/srv/stage" is <<"", "srv", "stage">>, "../config" is <<"..", "config">>,
\* the empty string is <<"">>.
DstDirs == {<<"stage">>, <<"", "srv", "stage">>}

\* The lexical forms of header.Name: the "./<dir>/<name>" that oshub.Tar
\* writes, the same below "..", behind a leading "/", and the same reached
\* through a directory and two "..".
NameForms == {"client", "parent", "absolute", "climb"}

HeaderName(form, path) ==
    (IF form = "parent" THEN <<"..">>
     ELSE IF form = "absolute" THEN <<"">>
     ELSE IF form = "climb" THEN <<"objects", "..", "..">>
     ELSE <<".">>)
    \o (IF path.dir = "config" THEN <<"config">>
        ELSE <<path.dir, ToString(path.name)>>)

\* The string begins with "/".
Rooted(s) == Len(s) >= 2 /\ s[1] = ""

\* path.Clean: empty elements and "." are dropped, a ".." removes the element
\* before it, a ".." at the root is dropped, a ".." at the beginning of a
\* path that is not rooted stays.
RECURSIVE CleanElems(_, _, _)
CleanElems(elems, rooted, out) ==
    IF elems = <<>> THEN out
    ELSE LET e == Head(elems)
             rest == Tail(elems)
         IN  IF e \in {"", "."} THEN CleanElems(rest, rooted, out)
             ELSE IF e # ".." THEN CleanElems(rest, rooted, Append(out, e))
             ELSE IF out # <<>> /\ out[Len(out)] # ".."
             THEN CleanElems(rest, rooted, SubSeq(out, 1, Len(out) - 1))
             ELSE IF rooted THEN CleanElems(rest, rooted, out)
             ELSE CleanElems(rest, rooted, Append(out, ".."))

Clean(s) == [rooted |-> Rooted(s), elems |-> CleanElems(s, Rooted(s), <<>>)]

\* path.Join(dir, name): the elements that are not empty strings, joined
\* with "/", then Clean.
Join(dir, name) ==
    IF name = <<"">> THEN Clean(dir)
    ELSE IF dir = <<"">> THEN Clean(name)
    ELSE Clean(dir \o name)

\* Where a panic in the loop continues: the deferred close(fileQueue).
AfterPanicNoDefer == "recover"

AfterPanic == "close"

InitUntar ==
    /\ bucket = [k \in BucketKeys |-> NoObject]
    /\ archive = <<>>
    /\ untarPc = "loop"
    /\ untarHeld = <<>>
    /\ untarQueue = EmptyChan
    /\ untarCloses = 0
    /\ untarOut = <<>>
    /\ hEmitted = <<>>
    /\ hFailedAt = 0
    /\ dstDir \in DstDirs
    /\ hCreated = {}
    /\ ClientIdleForHub /\ HubIdle /\ CheckIdle

\* One iteration of the loop, up to the send.
UntarNext ==
    /\ untarPc = "loop"
    /\ \E outcome \in UntarOutcomes, path \in HubPaths, record \in PaxRecords,
          form \in NameForms :
         /\ Len(archive) >= MaxEntries => outcome \in {"eof", "readErr"}
         /\ outcome # "reg" => (path = ConfigPath /\ record = NoRecord)
         /\ outcome \notin {"dir", "reg"} => form = "client"
         /\ form # "client" => record = NoRecord
         /\ archive' = Append(archive, [outcome |-> outcome, Path |-> path,
                                        record |-> record, form |-> form])
         /\ hCreated' = IF outcome \in {"dir", "reg"}
                         THEN hCreated \cup {Join(dstDir, HeaderName(form, path))}
                         ELSE hCreated
         /\ IF outcome = "eof"
            THEN /\ untarPc' = "close"
                 /\ UNCHANGED <<untarHeld, hFailedAt>>
            ELSE IF outcome = "dir"
            THEN UNCHANGED <<untarPc, untarHeld, hFailedAt>>
            ELSE IF outcome = "reg"
            THEN /\ untarPc' = "send"
                 /\ untarHeld' = <<[Path |-> path, CRC32 |-> ExpectedCrc(record)]>>
                 /\ UNCHANGED hFailedAt
            ELSE /\ untarPc' = AfterPanic
                 /\ hFailedAt' = Len(archive) + 1
                 /\ UNCHANGED untarHeld
    /\ UNCHANGED <<bucket, untarQueue, untarCloses, untarOut, hEmitted, dstDir,
         clientVars, hubVars, checkVars, pusherVars>>

\* fileQueue <- &RepoFile{...}
UntarSend ==
    /\ untarPc = "send"
    /\ CanSend(untarQueue, untarQueueSize)
    /\ untarQueue' = Send(untarQueue, Head(untarHeld))
    /\ hEmitted' = Append(hEmitted, Head(untarHeld))
    /\ untarHeld' = <<>>
    /\ untarPc' = "loop"
    /\ UNCHANGED <<bucket, archive, untarCloses, untarOut, hFailedAt,
         dstDir, hCreated,
         clientVars, hubVars, checkVars, pusherVars>>

\* defer close(fileQueue)
UntarClose ==
    /\ untarPc = "close"
    /\ untarQueue' = [untarQueue EXCEPT !.closed = TRUE]
    /\ untarCloses' = untarCloses + 1
    /\ untarPc' = "recover"
    /\ UNCHANGED <<bucket, archive, untarHeld, untarOut, hEmitted, hFailedAt,
         dstDir, hCreated,
         clientVars, hubVars, checkVars, pusherVars>>

\* the deferred recover()
UntarRecover ==
    /\ untarPc = "recover"
    /\ untarPc' = "done"
    /\ UNCHANGED <<bucket, archive, untarHeld, untarQueue, untarCloses,
         untarOut, hEmitted, hFailedAt, dstDir, hCreated,
         clientVars, hubVars, checkVars, pusherVars>>

\* The reader of Untar's queue.
UntarConsume ==
    /\ untarPc # "idle"
    /\ CanRecv(untarQueue)
    /\ untarOut' = Append(untarOut, Head(untarQueue.buf))
    /\ untarQueue' = Recv(untarQueue)
    /\ UNCHANGED <<bucket, archive, untarPc, untarHeld, untarCloses,
         hEmitted, hFailedAt, dstDir, hCreated,
         clientVars, hubVars, checkVars, pusherVars>>

NextUntar ==
    \/ UntarNext \/ UntarSend \/ UntarClose \/ UntarRecover \/ UntarConsume

SpecUntar == InitUntar /\ [][NextUntar]_vars

\* ============================ SpecHub: Filter, the Sync workers and Wait
SyncWorkers == 1..workerNumb

InitHub ==
    /\ bucket = [k \in BucketKeys |-> IF k = 1 THEN 1 ELSE NoObject]
    /\ fed = 0
    /\ hubFileQueue = EmptyChan
    /\ filterPc = "loop"
    /\ fileNumb = 0
    /\ objectQueue = EmptyChan
    /\ filterReportQueue = EmptyChan
    /\ syncPc = [w \in SyncWorkers |-> "recv"]
    /\ syncObject = [w \in SyncWorkers |-> <<>>]
    /\ syncAttr = [w \in SyncWorkers |-> <<>>]
    /\ syncStatus = [w \in SyncWorkers |-> <<>>]
    /\ statusQueue = EmptyChan
    /\ hubStatus = ZeroSyncReport
    /\ hubWaitPc = "loop"
    /\ hEvents = <<>>
    /\ hWrites = {}
    /\ hCountTaken = FALSE
    /\ hForwarded = 0
    /\ ClientIdleForHub /\ CheckIdle /\ UntarIdle

HubRunning == hubWaitPc # "idle"

\* The unpacker emits a file of the archive, or ends.
HubFeed ==
    /\ HubRunning
    /\ fed < MaxEntries
    /\ ~hubFileQueue.closed
    /\ CanSend(hubFileQueue, untarQueueSize)
    /\ \E f \in HubFiles : hubFileQueue' = Send(hubFileQueue, f)
    /\ fed' = fed + 1
    /\ UNCHANGED <<hForwarded, bucket, filterPc, fileNumb, objectQueue,
         filterReportQueue, syncPc, syncObject, syncAttr, syncStatus,
         statusQueue, hubStatus, hubWaitPc, hEvents, hWrites, hCountTaken,
         clientVars, checkVars, untarVars, pusherVars>>

HubFeedClose ==
    /\ HubRunning
    /\ ~hubFileQueue.closed
    /\ hubFileQueue' = [hubFileQueue EXCEPT !.closed = TRUE]
    /\ UNCHANGED <<hForwarded, bucket, fed, filterPc, fileNumb, objectQueue,
         filterReportQueue, syncPc, syncObject, syncAttr, syncStatus,
         statusQueue, hubStatus, hubWaitPc, hEvents, hWrites, hCountTaken,
         clientVars, checkVars, untarVars, pusherVars>>

\* ---- Filter's goroutine
FilterFile ==
    /\ filterPc = "loop"
    /\ CanRecv(hubFileQueue)
    /\ LET file == Head(hubFileQueue.buf)
       IN  IF HasFilterPrefix(file.Path)
           THEN /\ CanSend(objectQueue, objectQueueSize)
                /\ objectQueue' = Send(objectQueue, file)
                /\ hForwarded' = hForwarded + 1
           ELSE UNCHANGED <<objectQueue, hForwarded>>
    /\ fileNumb' = fileNumb + 1
    /\ hubFileQueue' = Recv(hubFileQueue)
    /\ UNCHANGED <<bucket, fed, filterPc, filterReportQueue, syncPc,
         syncObject, syncAttr, syncStatus, statusQueue, hubStatus, hubWaitPc,
         hEvents, hWrites, hCountTaken, clientVars, checkVars, untarVars, pusherVars>>

\* reportQueue <- fileNumb
FilterReport ==
    /\ filterPc = "loop"
    /\ IsDrained(hubFileQueue)
    /\ CanSend(filterReportQueue, filterReportQueueSize)
    /\ filterReportQueue' = Send(filterReportQueue, fileNumb)
    /\ filterPc' = "closeObj"
    /\ UNCHANGED <<hForwarded, bucket, fed, hubFileQueue, fileNumb, objectQueue, syncPc,
         syncObject, syncAttr, syncStatus, statusQueue, hubStatus, hubWaitPc,
         hEvents, hWrites, hCountTaken, clientVars, checkVars, untarVars, pusherVars>>

\* defer close(objectQueue)
FilterCloseObjects ==
    /\ filterPc = "closeObj"
    /\ objectQueue' = [objectQueue EXCEPT !.closed = TRUE]
    /\ filterPc' = "closeRep"
    /\ UNCHANGED <<hForwarded, bucket, fed, hubFileQueue, fileNumb, filterReportQueue,
         syncPc, syncObject, syncAttr, syncStatus, statusQueue, hubStatus,
         hubWaitPc, hEvents, hWrites, hCountTaken, clientVars, checkVars,
         untarVars, pusherVars>>

\* defer close(reportQueue)
FilterCloseReport ==
    /\ filterPc = "closeRep"
    /\ filterReportQueue' = [filterReportQueue EXCEPT !.closed = TRUE]
    /\ filterPc' = "done"
    /\ UNCHANGED <<hForwarded, bucket, fed, hubFileQueue, fileNumb, objectQueue, syncPc,
         syncObject, syncAttr, syncStatus, statusQueue, hubStatus, hubWaitPc,
         hEvents, hWrites, hCountTaken, clientVars, checkVars, untarVars, pusherVars>>

\* ---- a Sync worker
SyncTake(w) ==
    /\ syncPc[w] = "recv"
    /\ CanRecv(objectQueue)
    /\ syncObject' = [syncObject EXCEPT ![w] = <<Head(objectQueue.buf)>>]
    /\ objectQueue' = Recv(objectQueue)
    /\ syncPc' = [syncPc EXCEPT ![w] = "query"]
    /\ UNCHANGED <<hForwarded, bucket, fed, hubFileQueue, filterPc, fileNumb,
         filterReportQueue, syncAttr, syncStatus, statusQueue, hubStatus,
         hubWaitPc, hEvents, hWrites, hCountTaken, clientVars, checkVars,
         untarVars, pusherVars>>

\* upload(): obj.Attrs
SyncQuery(w) ==
    /\ syncPc[w] = "query"
    /\ \E queryFails \in BOOLEAN :
         syncAttr' = [syncAttr EXCEPT ![w] =
             <<Attrs(bucket, ObjectName(Head(syncObject[w]).Path), queryFails)>>]
    /\ syncPc' = [syncPc EXCEPT ![w] = "write"]
    /\ UNCHANGED <<hForwarded, bucket, fed, hubFileQueue, filterPc, fileNumb,
         objectQueue, filterReportQueue, syncObject, syncStatus, statusQueue,
         hubStatus, hubWaitPc, hEvents, hWrites, hCountTaken, clientVars,
         checkVars, untarVars, pusherVars>>

\* upload(): the rest. bodyCrc is the checksum of the staged bytes.
SyncUpload(w) ==
    /\ syncPc[w] = "write"
    /\ \E fault \in Faults \ {"query"}, bodyCrc \in Crcs :
         LET object == Head(syncObject[w])
             r == UploadAfterQuery(Head(syncAttr[w]), ObjectName(object.Path),
                                   object, bodyCrc, bucket, fault)
         IN  /\ bucket' = r.bucket
             /\ syncStatus' = [syncStatus EXCEPT ![w] = <<r.status>>]
             /\ hWrites' = IF r.wrote
                           THEN hWrites \cup {[attr |-> r.attr, object |-> object]}
                           ELSE hWrites
    /\ syncPc' = [syncPc EXCEPT ![w] = "send"]
    /\ UNCHANGED <<hForwarded, fed, hubFileQueue, filterPc, fileNumb, objectQueue,
         filterReportQueue, syncObject, syncAttr, statusQueue, hubStatus,
         hubWaitPc, hEvents, hCountTaken, clientVars, checkVars, untarVars, pusherVars>>

\* statusQueue <- upload(...)
SyncSend(w) ==
    /\ syncPc[w] = "send"
    /\ CanSend(statusQueue, workerNumb * statusQueuePerWorker)
    /\ statusQueue' = Send(statusQueue, Head(syncStatus[w]))
    /\ hEvents' = Append(hEvents, Head(syncStatus[w]))
    /\ syncObject' = [syncObject EXCEPT ![w] = <<>>]
    /\ syncAttr' = [syncAttr EXCEPT ![w] = <<>>]
    /\ syncStatus' = [syncStatus EXCEPT ![w] = <<>>]
    /\ syncPc' = [syncPc EXCEPT ![w] = "recv"]
    /\ UNCHANGED <<hForwarded, bucket, fed, hubFileQueue, filterPc, fileNumb,
         objectQueue, filterReportQueue, hubStatus, hubWaitPc, hWrites,
         hCountTaken, clientVars, checkVars, untarVars, pusherVars>>

SyncWorkerDone(w) ==
    /\ syncPc[w] = "recv"
    /\ IsDrained(objectQueue)
    /\ syncPc' = [syncPc EXCEPT ![w] = "done"]
    /\ UNCHANGED <<hForwarded, bucket, fed, hubFileQueue, filterPc, fileNumb,
         objectQueue, filterReportQueue, syncObject, syncAttr, syncStatus,
         statusQueue, hubStatus, hubWaitPc, hEvents, hWrites, hCountTaken,
         clientVars, checkVars, untarVars, pusherVars>>

\* wg.Wait(); the deferred close(statusQueue)
SyncClose ==
    /\ HubRunning
    /\ WaitGroupDone(syncPc)
    /\ ~statusQueue.closed
    /\ statusQueue' = [statusQueue EXCEPT !.closed = TRUE]
    /\ UNCHANGED <<hForwarded, bucket, fed, hubFileQueue, filterPc, fileNumb,
         objectQueue, filterReportQueue, syncPc, syncObject, syncAttr,
         syncStatus, hubStatus, hubWaitPc, hEvents, hWrites, hCountTaken,
         clientVars, checkVars, untarVars, pusherVars>>

\* ---- Wait: the cases of its select. A receive from the closed reportQueue
\* changes nothing.
HubWaitCount ==
    /\ hubWaitPc = "loop"
    /\ CanRecv(filterReportQueue)
    /\ hubStatus' = [hubStatus EXCEPT !.UploadedFileNumb = Head(filterReportQueue.buf)]
    /\ filterReportQueue' = Recv(filterReportQueue)
    /\ hCountTaken' = TRUE
    /\ UNCHANGED <<hForwarded, bucket, fed, hubFileQueue, filterPc, fileNumb,
         objectQueue, syncPc, syncObject, syncAttr, syncStatus, statusQueue,
         hubWaitPc, hEvents, hWrites, clientVars, checkVars, untarVars, pusherVars>>

HubWaitStatus ==
    /\ hubWaitPc = "loop"
    /\ CanRecv(statusQueue)
    /\ hubStatus' = WaitOnStatus(hubStatus, Head(statusQueue.buf))
    /\ statusQueue' = Recv(statusQueue)
    /\ UNCHANGED <<hForwarded, bucket, fed, hubFileQueue, filterPc, fileNumb,
         objectQueue, filterReportQueue, syncPc, syncObject, syncAttr,
         syncStatus, hubWaitPc, hEvents, hWrites, hCountTaken, clientVars,
         checkVars, untarVars, pusherVars>>

HubWaitReturn ==
    /\ hubWaitPc = "loop"
    /\ IsDrained(statusQueue)
    /\ hubWaitPc' = "returned"
    /\ UNCHANGED <<hForwarded, bucket, fed, hubFileQueue, filterPc, fileNumb,
         objectQueue, filterReportQueue, syncPc, syncObject, syncAttr,
         syncStatus, statusQueue, hubStatus, hEvents, hWrites, hCountTaken,
         clientVars, checkVars, untarVars, pusherVars>>

NextHub ==
    \/ HubFeed \/ HubFeedClose
    \/ FilterFile \/ FilterReport \/ FilterCloseObjects \/ FilterCloseReport
    \/ \E w \in SyncWorkers :
         \/ SyncTake(w) \/ SyncQuery(w) \/ SyncUpload(w) \/ SyncSend(w)
         \/ SyncWorkerDone(w)
    \/ SyncClose
    \/ HubWaitCount \/ HubWaitStatus \/ HubWaitReturn

SpecHub == InitHub /\ [][NextHub]_vars

\* The input queue is closed in the end, and the scheduler runs every
\* goroutine that can take a step: Filter, each Sync worker, Sync's closer,
\* and Wait, whose select takes a ready case.
HubFairness ==
    /\ WF_vars(HubFeedClose)
    /\ WF_vars(FilterFile \/ FilterReport \/ FilterCloseObjects \/ FilterCloseReport)
    /\ \A w \in SyncWorkers :
          WF_vars(SyncTake(w) \/ SyncQuery(w) \/ SyncUpload(w) \/ SyncSend(w)
                   \/ SyncWorkerDone(w))
    /\ WF_vars(SyncClose)
    /\ WF_vars(HubWaitCount \/ HubWaitStatus \/ HubWaitReturn)

SpecHubFair == SpecHub /\ HubFairness

\* ================================================================== claims

\* ================== SpecPools: the three worker pools, each on its own
\* A behaviour is one of the client (Spec), of a check request (SpecCheck) or
\* of a PUT on the hub (SpecHub).
InitPools == Init \/ InitCheck \/ InitHub

NextPools ==
    \/ run >= 1 /\ Next
    \/ checkCloserPc # "idle" /\ NextCheck
    \/ HubRunning /\ NextHub

SpecPools == InitPools /\ [][NextPools]_vars

\* ------------------------------------------------------------ under Spec

\* C1: when wait() has returned, every value a worker sent on the Check
\* channel and on the Send channel has been received and summed: Checked is
\* the sum of the batch sizes sent, Sent the sum of the SendReports sent, and
\* neither channel holds an unreceived value.
C1_ReportComplete ==
    waitPc = "returned" =>
        /\ totalChecked = hCheckSent
        /\ totalSendReport = hSendSent
        /\ checkReportQueue.buf = <<>>
        /\ reportQueue.buf = <<>>

C7_BatchBound ==
    \A n \in hBatchSizes : n <= filesToCheckMaxNumb

C9_PutErrorIsFatal ==
    hBadDelivered = 0


\* --------------------------------------------------------- under SpecHub

\* C2: the report Wait returns has UploadedFileNumb equal to the number of
\* files Filter read; Wait does not return before it has received that count.
C2_UploadedIsFilterCount ==
    hubWaitPc = "returned" =>
        /\ hCountTaken
        /\ hubStatus.UploadedFileNumb = fileNumb

\* C5: a bucket write is started only after an attribute query that found no
\* object, or found one with another CRC-32C than the declared checksum; a
\* query that finds an equal CRC-32C gives the status {Exist: true, Err: ""}
\* and no write.
C5_WriteOnlyIfAbsentOrDifferent ==
    /\ \A wr \in hWrites :
          \/ wr.attr.err = "ErrObjectNotExist"
          \/ wr.attr.err = "nil" /\ wr.attr.CRC32C # wr.object.CRC32
    /\ \A w \in SyncWorkers :
          (syncPc[w] = "send"
             /\ Head(syncAttr[w]).err = "nil"
             /\ Head(syncAttr[w]).CRC32C = Head(syncObject[w]).CRC32)
          => /\ Head(syncStatus[w]).Exist = TRUE
             /\ Head(syncStatus[w]).Err = ""
             /\ [attr |-> Head(syncAttr[w]), object |-> Head(syncObject[w])]
                    \notin hWrites

\* One upload has overwritten an object of another checksum while another
\* found its object in place.
C5_Witness ==
    /\ \E wr \in hWrites : wr.attr.err = "nil"
    /\ \E w \in SyncWorkers :
          /\ syncPc[w] = "send"
          /\ Head(syncStatus[w]).Exist

CountEvents(P(_)) == Cardinality({i \in 1..Len(hEvents) : P(hEvents[i])})
IsFailure(e) == e.Err # ""
IsSkip(e) == e.Exist /\ e.Err = ""
IsCleanWrite(e) == ~e.Exist /\ e.Err = ""
IsAttempt(e) == ~e.Exist
IsRejected(e) == e.Err = "checksum"

\* C6: the report Wait returns has synced = sync_failed + skips + successful
\* writes and upload_synced = the events with Exist false, so sync_failed <=
\* upload_synced <= synced; a write the bucket rejects for its checksum counts
\* in sync_failed and in upload_synced.
C6_CounterRelation ==
    hubWaitPc = "returned" =>
        /\ hubStatus.SyncedFileNumb = Len(hEvents)
        /\ hubStatus.SyncFailedNumb = CountEvents(IsFailure)
        /\ hubStatus.SyncedFileNumb =
               hubStatus.SyncFailedNumb + CountEvents(IsSkip)
                   + CountEvents(IsCleanWrite)
        /\ hubStatus.UploadSyncedFileNumb = CountEvents(IsAttempt)
        /\ hubStatus.SyncFailedNumb <= hubStatus.UploadSyncedFileNumb
        /\ hubStatus.UploadSyncedFileNumb <= hubStatus.SyncedFileNumb
        /\ CountEvents(IsRejected) <= hubStatus.SyncFailedNumb
        /\ \A i \in 1..Len(hEvents) : IsRejected(hEvents[i]) => IsAttempt(hEvents[i])

\* Wait has returned a report over a skip and a write the bucket rejected.
C6_Witness ==
    /\ hubWaitPc = "returned"
    /\ CountEvents(IsRejected) = 1
    /\ CountEvents(IsSkip) = 1
    /\ hubStatus.SyncFailedNumb = 1
    /\ hubStatus.UploadSyncedFileNumb = 1

\* ------------------------------------------------------- under SpecCheck

\* The files Check has emitted so far: received, queued, or held by a worker.
CheckEmitted ==
    checkOut \o objToSyncCh.buf
        \o [i \in 1..Cardinality({w \in CheckWorkers : checkHeld[w] # <<>>}) |->
               LET ws == {w \in CheckWorkers : checkHeld[w] # <<>>}
                   nth == CHOOSE f \in [1..Cardinality(ws) -> ws] :
                              \A a, b \in 1..Cardinality(ws) : a < b => f[a] < f[b]
               IN  Head(checkHeld[nth[i]])]

\* C4: what Check emits is a subset of the request's files, path and
\* checksum unchanged, each at most once; once Check is through, every file
\* outside ./objects/ is emitted, and every file not emitted is an object for
\* which the bucket holds, under its key, a CRC-32C equal to its checksum.
C4_MissingSet ==
    /\ \A i \in 1..Len(CheckEmitted) : CheckEmitted[i] \in checkBatch
    /\ \A i, j \in 1..Len(CheckEmitted) : CheckEmitted[i] = CheckEmitted[j] => i = j
    /\ IsDrained(objToSyncCh) =>
          \A f \in checkBatch :
             /\ ~HasObjectsPrefix(f.Path) => \E i \in 1..Len(checkOut) : checkOut[i] = f
             /\ (\A i \in 1..Len(checkOut) : checkOut[i] # f) =>
                   /\ HasObjectsPrefix(f.Path)
                   /\ bucket[ObjectName(f.Path)] # NoObject
                   /\ bucket[ObjectName(f.Path)] = f.CRC32

\* Check is through: it left out an object the bucket holds and emitted a file.
C4_Witness ==
    /\ IsDrained(objToSyncCh)
    /\ Len(checkOut) >= 1
    /\ \E f \in checkBatch :
          /\ \A i \in 1..Len(checkOut) : checkOut[i] # f
          /\ bucket[ObjectName(f.Path)] = f.CRC32

\* ------------------------------------------------------- under SpecUntar

\* The regular files among the first n entries the reader returned.
RECURSIVE StagedFiles(_)
StagedFiles(n) ==
    IF n = 0 THEN <<>>
    ELSE IF archive[n].outcome = "reg"
    THEN Append(StagedFiles(n - 1),
                [Path |-> archive[n].Path, CRC32 |-> ExpectedCrc(archive[n].record)])
    ELSE StagedFiles(n - 1)

\* C10: when Untar fails on an entry it reads no further entry and emits no
\* further file; its channel is closed exactly once, as on the clean end of
\* the archive; the files emitted before the failure stay emitted.
C10_FailureDiscipline ==
    /\ untarCloses <= 1
    /\ untarQueue.closed = (untarCloses = 1)
    /\ untarPc \in {"recover", "done"} => untarCloses = 1
    /\ hFailedAt # 0 =>
          /\ Len(archive) = hFailedAt
          /\ untarPc \in {"close", "recover", "done"}
          /\ hEmitted = StagedFiles(hFailedAt - 1)
    /\ untarPc # "idle" => hEmitted = untarOut \o untarQueue.buf

\* Untar has failed on its second entry, after a file it had emitted.
C10_Witness ==
    /\ untarPc = "done"
    /\ hFailedAt >= 2
    /\ Len(hEmitted) >= 1
    /\ untarCloses = 1
    /\ untarOut = hEmitted

\* C11: a regular-file entry whose FIO.ostree.CRC record parses as the
\* unsigned decimal integer c is emitted with checksum exactly c, also for a
\* c that does not fit in 32 bits; with no record or an unparsable one the
\* checksum is 0.
C11_ChecksumDecodedExactly ==
    untarPc = "send" =>
        LET record == archive[Len(archive)].record
        IN  Head(untarHeld).CRC32 =
                IF record >= 0 /\ record < UintRange THEN record ELSE 0

\* C12: the write is verified against the declared checksum exactly when
\* that checksum is not 0: an upload that ends with an empty Err after a write
\* with a declared checksum other than 0 leaves, under its key, an object of
\* that CRC-32C (a body of another checksum ends with an Err and leaves the
\* bucket as it was); a rejection for the checksum happens only with a
\* declared checksum other than 0; an entry of checksum 0 is skipped when the
\* attribute query matches it.
C12_ArmedWrites ==
    [][\A w \in SyncWorkers :
          (syncPc[w] = "write" /\ syncPc'[w] = "send") =>
              LET object == Head(syncObject[w])
                  attr == Head(syncAttr[w])
                  key == ObjectName(object.Path)
                  st == Head(syncStatus'[w])
              IN  /\ (st.Err = "" /\ ~st.Exist /\ object.CRC32 # 0)
                        => bucket'[key] = object.CRC32
                  /\ st.Err # "" => bucket' = bucket
                  /\ st.Err = "checksum" => object.CRC32 # 0
                  /\ (object.CRC32 = 0 /\ attr.err = "nil" /\ attr.CRC32C = 0)
                        => (st.Exist /\ st.Err = "" /\ bucket' = bucket)]_vars

\* A verified write has replaced an object of another checksum, after a write
\* that the bucket rejected for its checksum.
C12_Witness ==
    /\ \E i \in 1..Len(hEvents) : IsRejected(hEvents[i])
    /\ \E w \in SyncWorkers :
          /\ syncPc[w] = "send"
          /\ Head(syncStatus[w]).Err = ""
          /\ ~Head(syncStatus[w]).Exist
          /\ Head(syncObject[w]).CRC32 # 0
          /\ Head(syncAttr[w]).err = "nil"
          /\ bucket[ObjectName(Head(syncObject[w]).Path)] = Head(syncObject[w]).CRC32

\* C13: every entry Filter reads gets an upload-status event, the entries
\* outside ./objects/ (config, refs) included: when Wait has returned there
\* are as many events as entries read, and none of them tells of a skipped
\* upload of an entry outside ./objects/.
C13_NonObjectsUploaded ==
    hubWaitPc = "returned" =>
        /\ Len(hEvents) = fileNumb
        /\ \A i \in 1..Len(hEvents) :
              ~HasObjectsPrefix(hEvents[i].Object) => ~hEvents[i].Exist

\* An upload whose attribute query failed with another error than not-found
\* and that has its status in hand.
QueryFailed(w) ==
    /\ syncPc[w] = "send"
    /\ Head(syncAttr[w]).err \notin {"nil", "ErrObjectNotExist"}

\* C14 as claimed: after an attribute query that failed with another error
\* than not-found the uploader still opens the staged file and starts the
\* bucket write.
C14_QueryErrorStillUploads ==
    \A w \in SyncWorkers :
        QueryFailed(w) =>
            [attr |-> Head(syncAttr[w]), object |-> Head(syncObject[w])] \in hWrites

\* C14 as amended: after an attribute query that failed with another error
\* than not-found the uploader starts no write and leaves the bucket as it
\* was; its status has Exist false and the query's error.
C14_QueryErrorStopsUpload ==
    /\ [](\A w \in SyncWorkers :
            QueryFailed(w) =>
                /\ ~Head(syncStatus[w]).Exist
                /\ Head(syncStatus[w]).Err = "query"
                /\ [attr |-> Head(syncAttr[w]), object |-> Head(syncObject[w])]
                       \notin hWrites)
    /\ [][\A w \in SyncWorkers :
            (syncPc[w] = "write" /\ syncPc'[w] = "send"
               /\ Head(syncAttr[w]).err \notin {"nil", "ErrObjectNotExist"})
            => bucket' = bucket]_vars

\* An upload has ended on a failed attribute query for an object the bucket
\* does not hold.
C14_Witness ==
    \E w \in SyncWorkers :
        /\ QueryFailed(w)
        /\ Head(syncStatus[w]).Err = "query"
        /\ bucket[ObjectName(Head(syncObject[w]).Path)] = NoObject

\* --------------------------------------------------------- under Spec

\* C15: every call of Tar delivers exactly one SendReport on its report
\* channel, when the archive ends normally and when opening, reading or
\* writing a file fails: a step that ends Tar's goroutine, either way, leaves
\* one SendReport in its channel.
C15_OneSendReportPerTar ==
    [][\A w \in Pushers :
          (TarRun(w) \/ TarPanic(w)) => Len(sendReportChannel'[w]) = 1]_vars

\* C16: a worker whose check response is an empty MissingSet sends the
\* batch's size on the Check channel and nothing else: it starts no Tar and no
\* PUT, sends nothing on the Send and Sync channels, and goes on to read its
\* next batch; a worker that is archiving or forwarding reports has a MissingSet
\* that is not empty.
C16_EmptyMissingSetSkipsArchiver ==
    /\ [](\A w \in Pushers :
            (pc[w] \in {"fwdSend", "fwdSync"} \/ tar[w] # "idle" \/ http[w] # "idle")
            => objectsToSync[w] # {})
    /\ [][\A w \in Pushers :
            (SendCheck(w) /\ objectsToSync[w] = {}) =>
                /\ checkReportQueue'.buf =
                       Append(checkReportQueue.buf, Cardinality(objectsToCheck[w]))
                /\ pc'[w] = "read"
                /\ tar'[w] = "idle"
                /\ http'[w] = "idle"
                /\ hPuts' = hPuts
                /\ reportQueue' = reportQueue
                /\ recvReportQueue' = recvReportQueue
                /\ hSendSent' = hSendSent]_vars

\* A batch has been answered with an empty MissingSet and reported on the
\* Check channel; no PUT has been made and the worker reads again.
C16_Witness ==
    /\ Running
    /\ hCheckReqs = 1
    /\ hCheckSent >= 1
    /\ hMissing = {}
    /\ hPuts = 0
    /\ \A w \in Pushers : pc[w] = "read" /\ tar[w] = "idle" /\ http[w] = "idle"
    /\ reportQueue.buf = <<>>
    /\ recvReportQueue.buf = <<>>

\* The steps of one push worker, in the order of its loop body.
WorkerSteps ==
    {<<"read", "check">>, <<"check", "sendCheck">>, <<"sendCheck", "fwdSend">>,
     <<"sendCheck", "read">>, <<"fwdSend", "fwdSync">>, <<"fwdSync", "read">>,
     <<"read", "done">>}

\* The PUTs in flight: started and their SyncReport not yet forwarded.
PutsInFlight == {w \in Pushers : http[w] # "idle"}

\* C17: within a worker the events of a batch come in the order check request,
\* check-report send, PUT start, SendReport forwarded, SyncReport forwarded;
\* the worker makes its next check request only after it has forwarded one
\* SendReport and one SyncReport for the PUT; each worker has at most one PUT
\* in flight, so at most concurrentPusherNumb are in flight.
C17_WorkerSequence ==
    /\ [](\A w \in Pushers :
            /\ (http[w] # "idle" \/ tar[w] # "idle")
                  => pc[w] \in {"fwdSend", "fwdSync"}
            /\ pc[w] \in {"read", "check", "sendCheck", "done"}
                  => (sendReportChannel[w] = <<>> /\ recvReportChannel[w] = <<>>)
            /\ pc[w] = "fwdSync" => sendReportChannel[w] = <<>>
            /\ Len(sendReportChannel[w]) <= 1
            /\ Len(recvReportChannel[w]) <= 1)
    /\ [](Cardinality(PutsInFlight) <= concurrentPusherNumb)
    /\ [][(run' = run /\ ~aborted') =>
            \A w \in Pushers :
               /\ pc'[w] # pc[w] => <<pc[w], pc'[w]>> \in WorkerSteps
               /\ (pc[w] = "check" /\ pc'[w] = "sendCheck")
                     => hCheckReqs' = hCheckReqs + 1
               /\ (pc[w] = "sendCheck" /\ pc'[w] # pc[w])
                     => Len(checkReportQueue'.buf) = Len(checkReportQueue.buf) + 1
               /\ (pc[w] = "sendCheck" /\ pc'[w] = "fwdSend")
                     => (hPuts' = hPuts + 1 /\ http'[w] = "run" /\ tar'[w] = "run")
               /\ (pc[w] = "fwdSend" /\ pc'[w] = "fwdSync")
                     => Len(reportQueue'.buf) = Len(reportQueue.buf) + 1
               /\ (pc[w] = "fwdSync" /\ pc'[w] = "read")
                     => /\ Len(recvReportQueue'.buf) = Len(recvReportQueue.buf) + 1
                        /\ http'[w] = "idle"]_vars
    /\ [][(run' = run /\ ~aborted') =>
            /\ hCheckReqs' # hCheckReqs
                  => \E w \in Pushers : pc[w] = "check" /\ pc'[w] = "sendCheck"
            /\ hPuts' # hPuts
                  => \E w \in Pushers : pc[w] = "sendCheck" /\ pc'[w] = "fwdSend"]_vars

\* One worker has gone through check, PUT and both reports, and a worker is
\* about to make the next check request.
C17_Witness ==
    /\ Running
    /\ hCheckReqs = 1
    /\ hPuts = 1
    /\ hSendSent.FileNumb >= 1
    /\ \E w \in Pushers : pc[w] = "check"
    /\ \A w \in Pushers : pc[w] \notin {"sendCheck", "fwdSend", "fwdSync"}

\* ------------------------------------------------------- under SpecPools

\* A step inside one run of a process: not its death, not a new run.
SameRun == run' = run /\ ~aborted'

\* Once closed, a channel stays closed and receives no further value.
ClosedForGood(ch, chNext) ==
    ch.closed => (chNext.closed /\ Len(chNext.buf) <= Len(ch.buf))

\* C18: each output channel of a worker pool (Check's objToSyncCh, Sync's
\* statusQueue, the client's Check, Send and Sync report channels) is closed
\* only when all its producers have finished, by a close that finds it open;
\* after its close no worker sends on it.
C18_CloseDiscipline ==
    /\ []((checkReportQueue.closed \/ reportQueue.closed \/ recvReportQueue.closed)
            => \A w \in Pushers : pc[w] = "done")
    /\ [](objToSyncCh.closed
            => \A w \in CheckWorkers : checkPc[w] = "done" /\ checkHeld[w] = <<>>)
    /\ [](statusQueue.closed
            => \A w \in SyncWorkers : syncPc[w] = "done" /\ syncStatus[w] = <<>>)
    /\ [][SameRun =>
            /\ ClosedForGood(checkReportQueue, checkReportQueue')
            /\ ClosedForGood(reportQueue, reportQueue')
            /\ ClosedForGood(recvReportQueue, recvReportQueue')
            /\ ClosedForGood(objToSyncCh, objToSyncCh')
            /\ ClosedForGood(statusQueue, statusQueue')]_vars
    /\ [][/\ (SameRun /\ CloseCheck) => ~checkReportQueue.closed
          /\ (SameRun /\ CloseSend) => ~reportQueue.closed
          /\ (SameRun /\ CloseSync) => ~recvReportQueue.closed
          /\ CheckClose => ~objToSyncCh.closed
          /\ SyncClose => ~statusQueue.closed]_vars

\* The client's workers have sent their reports and finished, and the closer
\* has closed the three channels, the Check channel still holding a value.
C18_Witness ==
    /\ Running
    /\ closerPc = "c3"
    /\ checkReportQueue.closed /\ reportQueue.closed /\ recvReportQueue.closed
    /\ checkReportQueue.buf # <<>>
    /\ hPuts >= 1

\* -------------------------------------------------------- under SpecFair

HubDone ==
    /\ filterPc = "done"
    /\ \A w \in SyncWorkers : syncPc[w] = "done"
    /\ hubWaitPc = "returned"

\* C20: once the input queue is closed, Filter, all Sync workers and Wait
\* terminate; Wait returns only when it finds the status channel closed and
\* empty, and its SyncedFileNumb is then the number of entries Filter sent on
\* the object queue, one status for each.
C20_HubTerminates ==
    /\ HubRunning ~> HubDone
    /\ [](hubWaitPc = "returned" =>
            /\ IsDrained(statusQueue)
            /\ IsDrained(objectQueue)
            /\ hubStatus.SyncedFileNumb = hForwarded
            /\ Len(hEvents) = hForwarded)
    /\ [][(hubWaitPc # "returned" /\ hubWaitPc' = "returned")
            => IsDrained(statusQueue)]_vars

\* The pipeline has ended on an archive of a forwarded and a dropped entry.
C20_Witness ==
    /\ HubDone
    /\ fileNumb = MaxEntries
    /\ hForwarded >= 1
    /\ hForwarded < fileNumb
    /\ hubStatus.SyncedFileNumb = hForwarded

\* The batch a worker holds and has not yet reported on the Check channel.
C21_InHand(w) ==
    IF pc[w] \in {"read", "check", "sendCheck"} THEN objectsToCheck[w] ELSE {}

RECURSIVE C21_SumInHand(_)
C21_SumInHand(n) ==
    IF n = 0 THEN 0 ELSE Cardinality(C21_InHand(n)) + C21_SumInHand(n - 1)

\* C21: batching neither loses nor duplicates a file. In every interleaving of
\* the push workers, each file the walker has emitted is either still in the
\* walker queue, or in the unreported batch of exactly one worker, or counted
\* in a value already sent on the Check channel; the entry read when the batch
\* limit is reached stays in the batch. When all workers have ended, the sum
\* of the values sent on the Check channel is the number of files emitted.
C21_NoFileLostOrDuplicated ==
    Running =>
        /\ walkPos = Len(fileQueue.buf) + C21_SumInHand(concurrentPusherNumb)
                        + hCheckSent
        /\ \A w \in Pushers : \A v \in Pushers \ {w} :
              {e.Path : e \in C21_InHand(w)} \cap {e.Path : e \in C21_InHand(v)}
                  = {}
        /\ \A w \in Pushers :
              Cardinality({e.Path : e \in objectsToCheck[w]})
                  = Cardinality(objectsToCheck[w])
        /\ WaitGroupDone(pc) =>
              /\ IsDrained(fileQueue)
              /\ walkPos = Len(WalkOrder)
              /\ hCheckSent = walkPos

\* All workers have ended, one of them having reported a batch that holds the
\* entry read at the limit, and the Check values sum to the whole repository.
C21_Witness ==
    /\ Running
    /\ WaitGroupDone(pc)
    /\ (filesToCheckMaxNumb + 1) \in hBatchSizes
    /\ hCheckSent = Len(WalkOrder)
    /\ walkPos = Len(WalkOrder)

\* The cleaned path lies under the cleaned root (or is the root).
C22_Under(p, root) ==
    LET r == Clean(root)
    IN  /\ p.rooted = r.rooted
        /\ Len(p.elems) >= Len(r.elems)
        /\ SubSeq(p.elems, 1, Len(r.elems)) = r.elems

\* C22: staging containment. Every path Untar creates for a directory or a
\* regular-file entry lies under the staging root dstDir, whatever the
\* entry's name: also a name with ".." elements or an absolute name.
C22_StagingContainment ==
    \A p \in hCreated : C22_Under(p, dstDir)

\* A Wait of this Pusher has returned a Report.
C23_Completed == hReported \/ waitPc = "returned"

\* C23: the life of a Pusher. Wait returns the error "none of running jobs"
\* exactly when no Run has started a push; Run (its authentication passed)
\* returns the error "unfinished push jobs" exactly when a push was started
\* and no Wait has yet returned its report, so that a Run after that Wait is
\* accepted; no second push is started while one is running.
C23_PusherLifecycle ==
    /\ [][PusherWait => ((hWaitErr' = "noJobs") <=> (run = 0))]_vars
    /\ [][(PusherRun /\ hRunErr' # "auth") =>
            ((hRunErr' = "unfinished") <=> (run >= 1 /\ ~C23_Completed))]_vars
    /\ [][(PusherRun /\ run' # run) => (run = 0 \/ C23_Completed)]_vars

====
